---- MODULE Spec2Model ----
(***************************************************************************)
(* Model of dist-js/index.cjs: the webview side of the log plugin.        *)
(*                                                                         *)
(*   - the five level functions and log(), which derive a call-site       *)
(*     location from the captured stack and dispatch one "plugin:log|log" *)
(*     request through primitives.invoke;                                  *)
(*   - attachConsole(), which subscribes a handler to "log://log" through *)
(*     event.listen; the handler strips ANSI escapes and mirrors the      *)
(*     message to the console.                                             *)
(*                                                                         *)
(* Strings the code takes apart (the stack, the event message) are        *)
(* sequences of characters/tokens; strings it only passes along are TLA+  *)
(* strings.                                                                *)
(***************************************************************************)
EXTENDS Naturals, Integers, Sequences, FiniteSets, TLC

----------------------------------------------------------------------------
(* Bounds of the model *)

MaxStackLen == 3
MaxCalls == 3
MaxMsgLen == 6
MaxSubs == 2
MaxEvents == 2
SgrParamDigits == 3

BSeq(S, n) == UNION {[1..k -> S] : k \in 0..n}

RECURSIVE SeqSum(_)
SeqSum(s) == IF s = <<>> THEN 0 ELSE Head(s) + SeqSum(Tail(s))

----------------------------------------------------------------------------
(* JavaScript values *)

Undefined == "undefined"
Null == "null"

\* string | undefined, for strings the code takes apart
None == [some |-> FALSE, text |-> <<>>]
Some(t) == [some |-> TRUE, text |-> t]

LogLevel == [Trace |-> 1, Debug |-> 2, Info |-> 3, Warn |-> 4, Error |-> 5]
Levels == {LogLevel.Trace, LogLevel.Debug, LogLevel.Info, LogLevel.Warn, LogLevel.Error}

----------------------------------------------------------------------------
(* String.prototype.split / Array.prototype.join / filter *)

RECURSIVE Split(_, _)
Split(s, sep) ==
    IF \A i \in 1..Len(s) : s[i] # sep
    THEN <<s>>
    ELSE LET i == CHOOSE k \in 1..Len(s) : s[k] = sep /\ \A j \in 1..(k - 1) : s[j] # sep
         IN  <<SubSeq(s, 1, i - 1)>> \o Split(SubSeq(s, i + 1, Len(s)), sep)

RECURSIVE Join(_, _)
Join(parts, sep) ==
    IF parts = <<>> THEN <<>>
    ELSE IF Len(parts) = 1 THEN parts[1]
    ELSE parts[1] \o <<sep>> \o Join(Tail(parts), sep)

NonEmpty(v) == Len(v) > 0

----------------------------------------------------------------------------
(* log(): location derivation, lines 43-51 *)

NativeCode == <<"[native code]">>
ErrorText == <<"Error">>
UnknownLocation == <<"webview::unknown">>

\* new Error().stack?.split("\n").map((line) => line.split("@"))
Traces(stack) ==
    LET lines == Split(stack.text, "\n")
    IN  [i \in 1..Len(lines) |-> Split(lines[i], "@")]

\* ([name, location]) => name.length > 0 && location !== "[native code]"
KeepFrame(frame) ==
    /\ Len(frame[1]) > 0
    /\ (Len(frame) >= 2 => frame[2] # NativeCode)

Filtered(stack) == SelectSeq(Traces(stack), KeepFrame)

\* filtered?.[0]?.filter((v) => v.length > 0).join("@")
FirstFrameText(stack) ==
    IF ~stack.some THEN None
    ELSE IF Filtered(stack) = <<>> THEN None
    ELSE Some(Join(SelectSeq(Filtered(stack)[1], NonEmpty), "@"))

\* variant: the "Error" text is passed on as it is
LocationNoSentinel(stack) == FirstFrameText(stack)

\* if (location === "Error") location = "webview::unknown"
Location(stack) ==
    IF FirstFrameText(stack) = Some(ErrorText)
    THEN Some(UnknownLocation)
    ELSE FirstFrameText(stack)

----------------------------------------------------------------------------
(* attachConsole(): the ANSI pattern of lines 156-159, as the backtracking *)
(* matcher a JavaScript engine runs.  A matcher returns the position after *)
(* the match, or 0 when there is none.                                     *)

ESC == "\\u001b"
CSI == "\\u009b"

\* [\u001b\u009b]
Introducer == {ESC, CSI}
\* [[()#;?]
Prefix == {"[", "(", ")", "#", ";", "?"}
\* [0-9]
Digit == {"0", "1", "2", "3", "4", "5", "6", "7", "8", "9"}
\* [0-9A-ORZcf-nqry=><]
Final ==
    Digit \cup {"A", "B", "C", "D", "E", "F", "G", "H", "I", "J", "K", "L", "M", "N", "O"}
          \cup {"R", "Z", "c"}
          \cup {"f", "g", "h", "i", "j", "k", "l", "m", "n"}
          \cup {"q", "r", "y", "=", ">", "<"}

\* {1,4} and {0,4}
MaxDigits == 4

\* length of the longest run of characters of class at position j
RECURSIVE Run(_, _, _)
Run(s, j, class) ==
    IF j <= Len(s) /\ s[j] \in class THEN 1 + Run(s, j + 1, class) ELSE 0

Min(a, b) == IF a < b THEN a ELSE b

\* variant: the final class without its f-n range
MatchFinalNoLower(s, j) ==
    IF j <= Len(s) /\ s[j] \in Final \ {"f", "g", "h", "i", "j", "k", "l", "m", "n"}
    THEN j + 1 ELSE 0

\* the final byte
MatchFinal(s, j) == IF j <= Len(s) /\ s[j] \in Final THEN j + 1 ELSE 0

\* (?:;[0-9]{0,4})* then the final byte; greedy, d digits tried longest first
RECURSIVE MatchTail(_, _)
RECURSIVE TailDigits(_, _, _)
TailDigits(s, j, d) ==
    LET r == MatchTail(s, j + d)
    IN  IF r # 0 THEN r
        ELSE IF d = 0 THEN 0
        ELSE TailDigits(s, j, d - 1)

MatchTail(s, j) ==
    LET more == IF j <= Len(s) /\ s[j] = ";"
                THEN TailDigits(s, j + 1, Min(MaxDigits, Run(s, j + 1, Digit)))
                ELSE 0
    IN  IF more # 0 THEN more ELSE MatchFinal(s, j)

\* (?:[0-9]{1,4}(?:;[0-9]{0,4})*)? then the final byte
RECURSIVE ParamDigits(_, _, _)
ParamDigits(s, j, d) ==
    IF d = 0 THEN 0
    ELSE LET r == MatchTail(s, j + d)
         IN  IF r # 0 THEN r ELSE ParamDigits(s, j, d - 1)

MatchParams(s, j) ==
    LET with == ParamDigits(s, j, Min(MaxDigits, Run(s, j, Digit)))
    IN  IF with # 0 THEN with ELSE MatchFinal(s, j)

\* [[()#;?]* then the rest; k prefix characters tried longest first
RECURSIVE MatchPrefix(_, _, _)
MatchPrefix(s, j, k) ==
    LET r == MatchParams(s, j + k)
    IN  IF r # 0 THEN r
        ELSE IF k = 0 THEN 0
        ELSE MatchPrefix(s, j, k - 1)

\* the whole pattern, anchored at i
MatchAt(s, i) ==
    IF i <= Len(s) /\ s[i] \in Introducer
    THEN MatchPrefix(s, i + 1, Run(s, i + 1, Prefix))
    ELSE 0

\* .replace(/.../g, ""): leftmost matches, scanning on after each one
RECURSIVE StripFrom(_, _)
StripFrom(s, i) ==
    IF i > Len(s) THEN <<>>
    ELSE IF MatchAt(s, i) # 0 THEN StripFrom(s, MatchAt(s, i))
    ELSE <<s[i]>> \o StripFrom(s, i + 1)

StripAnsi(message) == StripFrom(message, 1)

----------------------------------------------------------------------------
(* Inputs *)

LevelFns == {"trace", "debug", "info", "warn", "error"}

Messages == {"", "hello"}

\* the options argument: undefined, null, or an object whose file, line and
\* keyValues are each present or missing (a missing property reads undefined)
NoOptions == [kind |-> "undefined", file |-> Undefined, line |-> Undefined, keyValues |-> Undefined]
NullOptions == [kind |-> "null", file |-> Undefined, line |-> Undefined, keyValues |-> Undefined]
OptionObjects ==
    [kind : {"object"}, file : {Undefined, Null, "main.js"},
     line : {Undefined, "42"}, keyValues : {Undefined, "{user:ann}"}]
Options == {NoOptions, NullOptions} \cup OptionObjects

\* new Error().stack: undefined, or text made of these pieces
StackTokens == {"\n", "@", "Error", "[native code]", "f"}
Stacks == {None} \cup {Some(t) : t \in BSeq(StackTokens, MaxStackLen)}

----------------------------------------------------------------------------
(* State *)

VARIABLES
    call,           \* call[c]: one level-function call and its promise
    wire,           \* the requests handed to primitives.invoke, in dispatch order
    hostLog,        \* the requests that reached the host, in arrival order
    settledBefore,  \* settledBefore[c]: the calls already settled when c was issued
    sub,            \* sub[a]: one attachConsole call, its promise and its listener
    emitted,        \* the events the host has emitted on "log://log"
    delivery,       \* delivery[a][e]: event e on its way to listener a
    console,        \* console[a][e]: the console calls listener a made for event e
    thrown,         \* thrown[a][e]: the errors listener a threw for event e
    text,           \* a message given to the sanitizer
    clean           \* what the sanitizer made of it

vars == <<call, wire, hostLog, settledBefore, sub, emitted, delivery, console, thrown, text, clean>>
emitterVars == <<call, wire, hostLog, settledBefore>>
consoleVars == <<sub, emitted, delivery, console, thrown>>
sanitizerVars == <<text, clean>>

CallIds == 1..MaxCalls
SubIds == 1..MaxSubs
EventIds == 1..MaxEvents

----------------------------------------------------------------------------
(* Log Emitter, lines 42-151 *)

InvokeCmd == "plugin:log|log"

\* error/warn/info/debug/trace: each fixes the level it passes to log()
LevelOf(fn) ==
    CASE fn = "error" -> LogLevel.Error
      [] fn = "warn"  -> LogLevel.Warn
      [] fn = "info"  -> LogLevel.Info
      [] fn = "debug" -> LogLevel.Debug
      [] fn = "trace" -> LogLevel.Trace

\* const { file, line, keyValues } = options ?? {}
Destructure(options) ==
    IF options.kind = "object" THEN options ELSE NoOptions

\* variant: omitted fields are sent as null
OrNull(v) == IF v = Undefined THEN Null ELSE v

PayloadDefaulted(level, message, options, stack) ==
    [level |-> level, message |-> message, location |-> Location(stack),
     file |-> OrNull(Destructure(options).file),
     line |-> OrNull(Destructure(options).line),
     keyValues |-> OrNull(Destructure(options).keyValues)]

\* the second argument of primitives.invoke
Payload(level, message, options, stack) ==
    [level |-> level, message |-> message, location |-> Location(stack),
     file |-> Destructure(options).file,
     line |-> Destructure(options).line,
     keyValues |-> Destructure(options).keyValues]

\* variant: invoke is not awaited
NotAwaited == "resolved"

\* await primitives.invoke(...): the call is suspended until the request settles
Suspended == "awaiting"

\* variant: a failed invoke is caught and dropped
Swallow(outcome) == "resolved"

\* the awaits of log() and of the level function pass the outcome on
AwaitOutcome(outcome) == IF outcome = "failed" THEN "rejected" ELSE "resolved"

IdleCall ==
    [st |-> "idle", fn |-> "none", message |-> "", options |-> NoOptions,
     stack |-> None, value |-> Undefined]

Settled(c) == call[c].st \in {"resolved", "rejected"}

\* call c has not been made yet; calls are numbered in issue order
CanCall(c) ==
    /\ call[c].st = "idle"
    /\ \A d \in 1..(c - 1) : call[d].st # "idle"

\* a level function is called: log() runs up to its await
LevelCall(c, fn, message, options, stack) ==
    /\ CanCall(c)
    /\ call' = [call EXCEPT ![c] =
                   [st |-> Suspended, fn |-> fn, message |-> message,
                    options |-> options, stack |-> stack, value |-> Undefined]]
    /\ wire' = Append(wire, [caller |-> c, cmd |-> InvokeCmd,
                             args |-> Payload(LevelOf(fn), message, options, stack),
                             st |-> "sent"])
    /\ settledBefore' = [settledBefore EXCEPT ![c] = {d \in CallIds : Settled(d)}]
    /\ UNCHANGED <<hostLog, consoleVars, sanitizerVars>>

\* the continuation after the await: resolve with no value, or rethrow
Resume(c, outcome) ==
    IF call[c].st = "awaiting"
    THEN [call EXCEPT ![c].st = AwaitOutcome(outcome)]
    ELSE call

\* transport: the request reaches the host
HostReceive(i) ==
    /\ wire[i].st = "sent"
    /\ wire' = [wire EXCEPT ![i].st = "arrived"]
    /\ hostLog' = Append(hostLog, [caller |-> wire[i].caller, args |-> wire[i].args])
    /\ UNCHANGED <<call, settledBefore, consoleVars, sanitizerVars>>

\* transport: the host's answer comes back and invoke resolves
InvokeResolve(i) ==
    /\ wire[i].st = "arrived"
    /\ wire' = [wire EXCEPT ![i].st = "acked"]
    /\ call' = Resume(wire[i].caller, "acked")
    /\ UNCHANGED <<hostLog, settledBefore, consoleVars, sanitizerVars>>

\* transport: invoke rejects (host unreachable, payload not serializable,
\* or the host's handler failed)
InvokeReject(i) ==
    /\ wire[i].st \in {"sent", "arrived"}
    /\ wire' = [wire EXCEPT ![i].st = "failed"]
    /\ call' = Resume(wire[i].caller, "failed")
    /\ UNCHANGED <<hostLog, settledBefore, consoleVars, sanitizerVars>>

----------------------------------------------------------------------------
(* Console Attacher, lines 152-181 *)

EventName == "log://log"

\* the five levels and one that is none of them
EventLevels == Levels \cup {99}
EventMessages ==
    { <<"o", "k">>,
      <<ESC, "[", "3", "1", "m", "o", "k", ESC, "[", "0", "m">> }
EventPayloads == [level : EventLevels, message : EventMessages]

\* variant: the default case logs instead of throwing
ConsoleChannelDefaultLogs(level) ==
    CASE level = LogLevel.Trace -> "log"
      [] level = LogLevel.Debug -> "debug"
      [] level = LogLevel.Info  -> "info"
      [] level = LogLevel.Warn  -> "warn"
      [] level = LogLevel.Error -> "error"
      [] OTHER -> "log"

\* variant: Warn is written with console.error
ConsoleChannelWarnAsError(level) ==
    CASE level = LogLevel.Trace -> "log"
      [] level = LogLevel.Debug -> "debug"
      [] level = LogLevel.Info  -> "info"
      [] level = LogLevel.Warn  -> "error"
      [] level = LogLevel.Error -> "error"
      [] OTHER -> "throw"

\* switch (payload.level): the console method of each case; default throws
ConsoleChannel(level) ==
    CASE level = LogLevel.Trace -> "log"
      [] level = LogLevel.Debug -> "debug"
      [] level = LogLevel.Info  -> "info"
      [] level = LogLevel.Warn  -> "warn"
      [] level = LogLevel.Error -> "error"
      [] OTHER -> "throw"

\* the callback given to event.listen: the console calls it makes and the
\* errors it throws for one event
Handler(payload) ==
    LET message == StripAnsi(payload.message)
    IN  IF ConsoleChannel(payload.level) = "throw"
        THEN [out |-> <<>>,
              err |-> <<[text |-> "unknown log level", level |-> payload.level]>>]
        ELSE [out |-> <<[channel |-> ConsoleChannel(payload.level), text |-> message]>>,
              err |-> <<>>]

\* variant: a failed listen is caught and dropped
ListenSwallow(outcome) == "resolved"

\* return await event.listen(...): a failed listen rejects attachConsole
ListenOutcome(outcome) == IF outcome = "failed" THEN "rejected" ELSE "resolved"

NoHandle == [kind |-> "none", id |-> 0]

\* variant: the handle given out does nothing
HandleNoop(a) == [kind |-> "noop", id |-> a]

\* variant: every call gives out the handle of the first registration
HandleShared(a) == [kind |-> "unlisten", id |-> 1]

\* what attachConsole resolves to: the unlisten function event.listen gave
\* for this very registration
HandleFrom(a) == [kind |-> "unlisten", id |-> a]

IdleSub ==
    [promise |-> "idle", listen |-> "none", value |-> NoHandle,
     listener |-> "none", cancel |-> "no"]

Listening(a) == sub[a].listener \in {"registered", "removing"}

\* attachConsole() is called: event.listen is in flight
AttachConsole(a) ==
    /\ sub[a].promise = "idle"
    /\ \A b \in 1..(a - 1) : sub[b].promise # "idle"    \* numbered in call order
    /\ sub' = [sub EXCEPT ![a].promise = "pending", ![a].listen = "pending"]
    /\ UNCHANGED <<emitted, delivery, console, thrown, emitterVars, sanitizerVars>>

\* transport: the listener is registered and listen resolves with its unlisten
ListenResolve(a) ==
    /\ sub[a].listen = "pending"
    /\ sub' = [sub EXCEPT ![a] =
                  [promise |-> ListenOutcome("ok"), listen |-> "ok",
                   value |-> HandleFrom(a), listener |-> "registered", cancel |-> "no"]]
    /\ UNCHANGED <<emitted, delivery, console, thrown, emitterVars, sanitizerVars>>

\* transport: listen fails, nothing is registered
ListenReject(a) ==
    /\ sub[a].listen = "pending"
    /\ sub' = [sub EXCEPT ![a].promise = ListenOutcome("failed"), ![a].listen = "failed"]
    /\ UNCHANGED <<emitted, delivery, console, thrown, emitterVars, sanitizerVars>>

\* the caller invokes the handle attachConsole resolved to
InvokeHandle(a) ==
    /\ sub[a].promise = "resolved"
    /\ sub[a].cancel = "no"
    /\ sub' = [b \in SubIds |->
                  [sub[b] EXCEPT
                      !.cancel = IF b = a THEN "invoked" ELSE @,
                      !.listener = IF /\ sub[a].value.kind = "unlisten"
                                      /\ sub[a].value.id = b
                                      /\ @ = "registered"
                                   THEN "removing" ELSE @]]
    /\ UNCHANGED <<emitted, delivery, console, thrown, emitterVars, sanitizerVars>>

\* transport: the cancellation completes; events still on their way to the
\* removed listener are never delivered
CancelDone(a) ==
    /\ sub[a].cancel = "invoked"
    /\ sub' = [b \in SubIds |->
                  [sub[b] EXCEPT
                      !.cancel = IF b = a THEN "completed" ELSE @,
                      !.listener = IF @ = "removing" /\ sub[a].value.id = b
                                   THEN "removed" ELSE @]]
    /\ delivery' = [b \in SubIds |-> [e \in EventIds |->
                      IF /\ sub[b].listener = "removing" /\ sub[a].value.id = b
                         /\ delivery[b][e] = "inflight"
                      THEN "dropped" ELSE delivery[b][e]]]
    /\ UNCHANGED <<emitted, console, thrown, emitterVars, sanitizerVars>>

\* host: an event is emitted on "log://log" and sent to every listener
Emit(payload) ==
    /\ Len(emitted) < MaxEvents
    /\ emitted' = Append(emitted,
                         [name |-> EventName, payload |-> payload,
                          listeners |-> {a \in SubIds : Listening(a)},
                          cancelled |-> {a \in SubIds : sub[a].cancel = "completed"}])
    /\ delivery' = [a \in SubIds |-> [e \in EventIds |->
                      IF e = Len(emitted) + 1 /\ Listening(a)
                      THEN "inflight" ELSE delivery[a][e]]]
    /\ UNCHANGED <<sub, console, thrown, emitterVars, sanitizerVars>>

\* transport: event e reaches listener a and the handler runs; a listener is
\* handed its events in the order the host emitted them
Deliver(a, e) ==
    /\ delivery[a][e] = "inflight"
    /\ \A d \in 1..(e - 1) : delivery[a][d] # "inflight"
    /\ Listening(a)
    /\ delivery' = [delivery EXCEPT ![a][e] = "done"]
    /\ console' = [console EXCEPT ![a][e] = @ \o Handler(emitted[e].payload).out]
    /\ thrown' = [thrown EXCEPT ![a][e] = @ \o Handler(emitted[e].payload).err]
    /\ UNCHANGED <<sub, emitted, emitterVars, sanitizerVars>>

----------------------------------------------------------------------------
(* The sanitizer on its own *)

SanChars == {ESC, CSI, "[", ";", "1", "m", "a"}

Type(ch) ==
    /\ ~clean.some
    /\ Len(text) < MaxMsgLen
    /\ text' = Append(text, ch)
    /\ UNCHANGED <<clean, emitterVars, consoleVars>>

Sanitize ==
    /\ ~clean.some
    /\ clean' = Some(StripAnsi(text))
    /\ UNCHANGED <<text, emitterVars, consoleVars>>

----------------------------------------------------------------------------
(* Specifications *)

Init ==
    /\ call = [c \in CallIds |-> IdleCall]
    /\ wire = <<>>
    /\ hostLog = <<>>
    /\ settledBefore = [c \in CallIds |-> {}]
    /\ sub = [a \in SubIds |-> IdleSub]
    /\ emitted = <<>>
    /\ delivery = [a \in SubIds |-> [e \in EventIds |-> "none"]]
    /\ console = [a \in SubIds |-> [e \in EventIds |-> <<>>]]
    /\ thrown = [a \in SubIds |-> [e \in EventIds |-> <<>>]]
    /\ text = <<>>
    /\ clean = None

\* one level-function call, with every input
Next ==
    \/ /\ CanCall(1)
       /\ \E fn \in LevelFns, message \in Messages, options \in Options, stack \in Stacks :
             LevelCall(1, fn, message, options, stack)
    \/ \E i \in DOMAIN wire : HostReceive(i)
    \/ \E i \in DOMAIN wire : InvokeResolve(i)
    \/ \E i \in DOMAIN wire : InvokeReject(i)

Spec == Init /\ [][Next]_vars

\* several calls, issued with or without awaiting the earlier ones
OrderNext ==
    \/ \E c \in CallIds, fn \in {"info", "error"} :
          LevelCall(c, fn, "hello", NoOptions, None)
    \/ \E i \in DOMAIN wire : HostReceive(i)
    \/ \E i \in DOMAIN wire : InvokeResolve(i)
    \/ \E i \in DOMAIN wire : InvokeReject(i)

OrderSpec == Init /\ [][OrderNext]_vars

\* one subscription, events of every level
ConsoleNext ==
    \/ AttachConsole(1)
    \/ ListenResolve(1)
    \/ ListenReject(1)
    \/ InvokeHandle(1)
    \/ CancelDone(1)
    \/ \E payload \in EventPayloads : Emit(payload)
    \/ \E e \in EventIds : Deliver(1, e)

ConsoleSpec == Init /\ [][ConsoleNext]_vars

\* several subscriptions, a known and an unknown level
AttachPayloads ==
    { [level |-> LogLevel.Warn, message |-> <<ESC, "[", "3", "1", "m", "o", "k", ESC, "[", "0", "m">>],
      [level |-> 99, message |-> <<"o", "k">>] }

AttachNext ==
    \/ \E a \in SubIds : AttachConsole(a)
    \/ \E a \in SubIds : ListenResolve(a)
    \/ \E a \in SubIds : ListenReject(a)
    \/ \E a \in SubIds : InvokeHandle(a)
    \/ \E a \in SubIds : CancelDone(a)
    \/ \E payload \in AttachPayloads : Emit(payload)
    \/ \E a \in SubIds, e \in EventIds : Deliver(a, e)

AttachSpec == Init /\ [][AttachNext]_vars

SanitizerNext ==
    \/ \E ch \in SanChars : Type(ch)
    \/ Sanitize

SanitizerSpec == Init /\ [][SanitizerNext]_vars

----------------------------------------------------------------------------
(* Properties *)

RequestsOf(c) == {i \in DOMAIN wire : wire[i].caller = c}
Issued(c) == call[c].st # "idle"

LevelNumber == [trace |-> 1, debug |-> 2, info |-> 3, warn |-> 4, error |-> 5]
SuppliedFile(c) == IF call[c].options.kind = "object" THEN call[c].options.file ELSE Undefined
SuppliedLine(c) == IF call[c].options.kind = "object" THEN call[c].options.line ELSE Undefined
SuppliedKeyValues(c) ==
    IF call[c].options.kind = "object" THEN call[c].options.keyValues ELSE Undefined

\* C1: a level-function call dispatches exactly one "plugin:log|log" request
\* whose payload carries the function's level number, the message, and file,
\* line and keyValues exactly as supplied, each omitted one being undefined.
C1_OneRequestAsSupplied ==
    \A c \in CallIds : Issued(c) =>
        /\ Cardinality(RequestsOf(c)) = 1
        /\ \A i \in RequestsOf(c) :
              /\ wire[i].cmd = "plugin:log|log"
              /\ wire[i].args.level = LevelNumber[call[c].fn]
              /\ wire[i].args.message = call[c].message
              /\ wire[i].args.file = SuppliedFile(c)
              /\ wire[i].args.line = SuppliedLine(c)
              /\ wire[i].args.keyValues = SuppliedKeyValues(c)

C1_Witness ==
    \E c \in CallIds, i \in DOMAIN wire :
        /\ wire[i].caller = c
        /\ call[c].fn = "warn"
        /\ call[c].options.kind = "object"
        /\ call[c].options.file = "main.js"
        /\ call[c].options.line = Undefined
        /\ wire[i].args.level = 4
        /\ wire[i].args.file = "main.js"
        /\ wire[i].args.line = Undefined

\* C2: a call makes exactly one dispatch whatever the captured stack was; its
\* promise rejects exactly when the transport failed that dispatch, resolves
\* exactly when the transport acknowledged it, and resolves with no value.
C2_RejectsIffTransportFails ==
    \A c \in CallIds : Issued(c) =>
        /\ Cardinality(RequestsOf(c)) = 1
        /\ \A i \in RequestsOf(c) :
              /\ call[c].st = "rejected" <=> wire[i].st = "failed"
              /\ call[c].st = "resolved" <=> wire[i].st = "acked"
              /\ call[c].st = "awaiting" <=> wire[i].st \in {"sent", "arrived"}
        /\ call[c].st = "resolved" => call[c].value = Undefined

NoUsableFrame(stack) ==
    \/ ~stack.some
    \/ \A k \in DOMAIN Traces(stack) : ~KeepFrame(Traces(stack)[k])

C2_Witness ==
    \E c \in CallIds :
        /\ call[c].st = "resolved"
        /\ call[c].stack.some
        /\ NoUsableFrame(call[c].stack)

DerivedIsError(stack) == FirstFrameText(stack) = Some(ErrorText)

\* C3 as claimed: with no usable frame (stack unavailable or every frame
\* filtered out), or with the derived text "Error", the request's location is
\* "webview::unknown".
C3_FallbackWheneverNoFrame ==
    \A c \in CallIds : \A i \in RequestsOf(c) :
        (NoUsableFrame(call[c].stack) \/ DerivedIsError(call[c].stack))
            => wire[i].args.location = Some(UnknownLocation)

\* C3 amended: the derived text "Error" gives the location "webview::unknown";
\* with no usable frame the location is undefined, not the sentinel.
C3_SentinelOnlyForErrorText ==
    \A c \in CallIds : \A i \in RequestsOf(c) :
        /\ DerivedIsError(call[c].stack) => wire[i].args.location = Some(UnknownLocation)
        /\ NoUsableFrame(call[c].stack) => wire[i].args.location = None

C3_Witness ==
    \E c \in CallIds, i \in DOMAIN wire :
        /\ wire[i].caller = c
        /\ call[c].stack = Some(<<"f", "@", "[native code]">>)
        /\ wire[i].args.location = None

Delivered(a, e) == delivery[a][e] = "done"
KnownLevel(e) == emitted[e].payload.level \in {1, 2, 3, 4, 5}
Emitted == DOMAIN emitted

\* Trace and Debug go to the two low-severity console methods
ExpectedChannel ==
    [l \in 1..5 |-> CASE l = 1 -> "log" [] l = 2 -> "debug" [] l = 3 -> "info"
                      [] l = 4 -> "warn" [] l = 5 -> "error"]

HasIntroducer(t) == \E k \in DOMAIN t : t[k] \in {ESC, CSI}

\* C4: for a delivered event of a known level the handler makes exactly one
\* console call, on the channel of that level (Trace -> log, Debug -> debug,
\* Info -> info, Warn -> warn, Error -> error), with the sanitized message.
C4_OneCallOnMatchingChannel ==
    \A a \in SubIds : \A e \in Emitted :
        (Delivered(a, e) /\ KnownLevel(e)) =>
            /\ Len(console[a][e]) = 1
            /\ console[a][e][1].channel = ExpectedChannel[emitted[e].payload.level]
            /\ console[a][e][1].text = StripAnsi(emitted[e].payload.message)
            /\ ~HasIntroducer(console[a][e][1].text)
            /\ thrown[a][e] = <<>>

C4_Witness ==
    \E a \in SubIds, e \in Emitted :
        /\ emitted[e].payload.level = 4
        /\ HasIntroducer(emitted[e].payload.message)
        /\ console[a][e] = <<[channel |-> "warn", text |-> <<"o", "k">>]>>

\* C5: an event of an unknown level makes the handler throw "unknown log
\* level" and write nothing; the listener stays registered, and the events
\* of known level delivered after it are mirrored all the same.
C5_UnknownLevelThrowsOnly ==
    \A a \in SubIds : \A e \in Emitted :
        (Delivered(a, e) /\ ~KnownLevel(e)) =>
            /\ console[a][e] = <<>>
            /\ Len(thrown[a][e]) = 1
            /\ thrown[a][e][1].text = "unknown log level"
            /\ thrown[a][e][1].level = emitted[e].payload.level
            /\ sub[a].cancel = "no" => sub[a].listener = "registered"
            /\ \A f \in Emitted :
                  (f > e /\ Delivered(a, f) /\ KnownLevel(f)) => Len(console[a][f]) = 1

C5_Witness ==
    \E a \in SubIds, e \in Emitted, f \in Emitted :
        /\ e < f
        /\ emitted[e].payload.level = 99
        /\ thrown[a][e] # <<>>
        /\ emitted[f].payload.level = 5
        /\ console[a][f] # <<>>
        /\ sub[a].listener = "registered"

SubState(a) ==
    CASE sub[a].listener = "none" -> "unattached"
      [] sub[a].listener \in {"registered", "removing"} -> "attached"
      [] sub[a].listener = "removed" -> "detached"

C6_AfterCancel ==
    \A a \in SubIds :
        /\ sub[a].cancel = "completed" => SubState(a) = "detached"
        /\ SubState(a) = "detached" => \A e \in EventIds : delivery[a][e] # "inflight"
        /\ \A e \in Emitted :
              /\ Len(console[a][e]) + Len(thrown[a][e]) <= 1
              /\ a \in emitted[e].cancelled =>
                    /\ delivery[a][e] = "none"
                    /\ console[a][e] = <<>>
                    /\ thrown[a][e] = <<>>

C6_Step ==
    \A a \in SubIds :
        SubState(a)' # SubState(a) =>
            <<SubState(a), SubState(a)'>> \in
                {<<"unattached", "attached">>, <<"attached", "detached">>}

\* C6: a subscription only goes from unattached to attached and from attached
\* to detached; once its handle has been invoked and the cancellation has
\* completed it is detached, and an event emitted after that reaches it not at
\* all; no subscription handles an event more than once.
C6_NoOutputAfterCancel == []C6_AfterCancel /\ [][C6_Step]_vars

C6_Witness ==
    \E a \in SubIds, e \in Emitted, f \in Emitted :
        /\ console[a][e] # <<>>
        /\ a \in emitted[f].cancelled
        /\ KnownLevel(f)

\* C8: when listen fails attachConsole rejects, gives no handle, and nothing
\* is registered: no event is sent to it and it writes nothing; when listen
\* succeeds attachConsole resolves to the unlisten handle of that registration.
C8_RejectsWhenListenFails ==
    \A a \in SubIds :
        /\ sub[a].listen = "failed" =>
              /\ sub[a].promise = "rejected"
              /\ sub[a].value = NoHandle
              /\ sub[a].listener = "none"
              /\ \A e \in EventIds :
                    /\ delivery[a][e] = "none"
                    /\ console[a][e] = <<>>
                    /\ thrown[a][e] = <<>>
        /\ sub[a].listen = "ok" =>
              /\ sub[a].promise = "resolved"
              /\ sub[a].value = [kind |-> "unlisten", id |-> a]
        /\ sub[a].listen = "pending" <=> sub[a].promise = "pending"

C8_Witness ==
    \E a \in SubIds, b \in SubIds, e \in Emitted :
        /\ sub[a].promise = "rejected"
        /\ sub[b].promise = "resolved"
        /\ console[b][e] # <<>>
        /\ console[a][e] = <<>>

OutputsFor(e) == SeqSum([a \in SubIds |-> Len(console[a][e])])

\* C10: every attachConsole call that succeeds holds a registration of its
\* own: a subscription whose own handle was not invoked stays registered
\* whatever the others do, no two handles are the same, and a known-level
\* event delivered to all k subscriptions registered (none of them cancelled)
\* has produced exactly k console calls, one each.
C10_IndependentSubscriptions ==
    /\ \A a \in SubIds :
          (sub[a].promise = "resolved" /\ sub[a].cancel = "no") =>
              sub[a].listener = "registered"
    /\ \A a \in SubIds : \A b \in SubIds :
          (a # b /\ sub[a].promise = "resolved" /\ sub[b].promise = "resolved") =>
              sub[a].value # sub[b].value
    /\ \A e \in Emitted :
          ( /\ KnownLevel(e)
            /\ \A a \in emitted[e].listeners : sub[a].cancel = "no" /\ Delivered(a, e) ) =>
              /\ OutputsFor(e) = Cardinality(emitted[e].listeners)
              /\ \A a \in emitted[e].listeners : Len(console[a][e]) = 1

C10_Witness ==
    \E a \in SubIds, b \in SubIds, e \in Emitted, f \in Emitted :
        /\ a # b
        /\ emitted[e].listeners = {a, b}
        /\ console[a][e] # <<>>
        /\ console[b][e] # <<>>
        /\ sub[a].cancel = "completed"
        /\ emitted[f].listeners = {b}
        /\ console[b][f] # <<>>

ReachedHost(c) == \E k \in DOMAIN hostLog : hostLog[k].caller = c
ArrivalOf(c) == CHOOSE k \in DOMAIN hostLog : hostLog[k].caller = c

\* C9: a call's promise is settled only once the transport has settled the
\* call's own request, and resolved only once that request reached the host;
\* so a call issued after an earlier call resolved reaches the host after it.
C9_AwaitedCallsArriveInOrder ==
    /\ \A c \in CallIds : Settled(c) =>
          /\ \A i \in RequestsOf(c) : wire[i].st \in {"acked", "failed"}
          /\ call[c].st = "resolved" => ReachedHost(c)
    /\ \A c \in CallIds : \A b \in settledBefore[c] :
          call[b].st = "resolved" =>
              /\ ReachedHost(b)
              /\ ReachedHost(c) => ArrivalOf(b) < ArrivalOf(c)

\* calls 1 and 2 were issued together and arrived in reverse; call 3 was
\* issued after both resolved and arrived last
C9_Witness ==
    /\ Len(hostLog) = 3
    /\ hostLog[1].caller = 2
    /\ hostLog[2].caller = 1
    /\ hostLog[3].caller = 3
    /\ settledBefore[2] = {}
    /\ settledBefore[3] = {1, 2}
    /\ call[1].st = "resolved"
    /\ call[2].st = "resolved"

\* ESC [ parameters m, the parameters being digits and ";" with at most
\* SgrParamDigits digits in a row
IsSgr(q) ==
    /\ Len(q) >= 3
    /\ q[1] = ESC
    /\ q[2] = "["
    /\ q[Len(q)] = "m"
    /\ \A k \in 3..(Len(q) - 1) : q[k] \in Digit \cup {";"}
    /\ \A k \in 3..(Len(q) - 1) : Run(q, k, Digit) <= SgrParamDigits

\* C7: sanitizing leaves a message without ESC or CSI as it is, and turns a
\* message made of plain text, one SGR colour sequence and plain text into
\* the two plain texts joined.
C7_StripsExactlyTheSgrSequence ==
    clean.some =>
        /\ ~HasIntroducer(text) => clean.text = text
        /\ \A i \in 1..Len(text) : \A j \in i..Len(text) :
              ( /\ IsSgr(SubSeq(text, i, j))
                /\ ~HasIntroducer(SubSeq(text, 1, i - 1))
                /\ ~HasIntroducer(SubSeq(text, j + 1, Len(text))) ) =>
                  clean.text = SubSeq(text, 1, i - 1) \o SubSeq(text, j + 1, Len(text))

C7_Witness ==
    /\ text = <<"a", ESC, "[", "1", "m", "a">>
    /\ clean = Some(<<"a", "a">>)

====
